---- MODULE Spec2Model ----
(***************************************************************************)
(* Model of cifuzz: the `run` command (internal/cmd/run), its signal       *)
(* listener / runner errgroup, the libFuzzer runner and report handler it  *)
(* drives, and the `coverage` command (internal/cmd/coverage).             *)
(***************************************************************************)
EXTENDS Integers, Sequences, FiniteSets, TLC

VARIABLES
    command,            \* which cobra command this execution runs
    fs,                 \* set of paths that exist on the file system
    opts,               \* runOptions
    runnerOpts,         \* libfuzzer.RunnerOptions handed to NewRunner
    pc,                 \* position of the command's main goroutine
    cmdErr,             \* error returned by the command
    numValidate,        \* calls of runOptions.validate
    numBuild,           \* build subprocesses started
    numSpawn,           \* fuzz target subprocesses started
    notified,           \* signal.Notify(sigs, ...) is in effect
    sigs,               \* number of signals buffered in the sigs channel (cap 1)
    signalHandlerCtx,   \* TRUE iff signalHandlerCtx is cancelled
    routinesCtx,        \* TRUE iff routinesCtx is cancelled
    routinesErr,        \* the errgroup's first non-nil error
    listener,           \* position of the signal listener goroutine
    runnerPc,           \* position of the runner goroutine
    runnerRet,          \* value returned by runner.Run
    proc,               \* fuzz target subprocess: none / live / exited / killed
    exitCode,           \* exit code of an exited subprocess
    killedBy,           \* who terminated the subprocess
    pipe,               \* output written by the subprocess, not yet read
    stream,             \* every line the subprocess has written (history)
    seen,               \* identities of the findings seen in this run
    findings,           \* findings handed to the report handler, in order
    rawCount,           \* raw occurrences per identity
    timer,              \* the runner's timeout timer: off / armed / fired
    resources,          \* sandbox-owned temporary resources exist
    acquired,           \* sandbox-owned temporary resources were created
    cleanupCalls,       \* invocations of runner.Cleanup
    removals,           \* times the temporary resources were removed
    metricsPrinted,     \* calls of ReportHandler.PrintFinalMetrics
    cov,                \* state of the coverage command
    goos,               \* runtime.GOOS of the build that is running
    bun,                \* state of the InstallationBundler (cmd/bundler)
    seeds,              \* state of a call of countSeeds
    stubs               \* state of a call into package stubs

vars == <<command, fs, opts, runnerOpts, pc, cmdErr, numValidate, numBuild, numSpawn,
          notified, sigs, signalHandlerCtx, routinesCtx,
          routinesErr, listener, runnerPc, runnerRet, proc, exitCode,
          killedBy, pipe, stream, seen, findings, rawCount, timer,
          resources, acquired, cleanupCalls, removals, metricsPrinted, cov, goos, bun, seeds, stubs>>

mainVars   == <<pc, cmdErr, numValidate, numBuild, metricsPrinted, runnerOpts>>
groupVars  == <<signalHandlerCtx, routinesCtx, routinesErr>>
sigVars    == <<notified, sigs>>
procVars   == <<proc, exitCode, killedBy, pipe, stream, timer, numSpawn>>
parserVars == <<seen, findings, rawCount>>
cleanVars  == <<resources, acquired, cleanupCalls, removals>>

----------------------------------------------------------------------------
(* Bounds *)

MaxSeedsDirs == 2       \* --seeds-dir flags given on the command line
MaxLines     == 2       \* lines the subprocess writes in one run

SigsCap == 1            \* make(chan os.Signal, 1)

SeedPaths  == {"seedsA", "seedsB"}
DictPath   == "dict"
DefaultCorpusDir == ".cifuzz-corpus"
Timeouts   == {0, 1}

SeqsUpTo(S, n) == UNION {[1..k -> S] : k \in 0..n}

----------------------------------------------------------------------------
(* Output lines, recognizers and finding identities *)

Banners == {"crash", "sanitizer", "timeout", "oom"}

\* A line of subprocess output: the banner it carries ("none" for a line no
\* recognizer matches), the logical signature of its detail text, and the
\* address-like token that varies from occurrence to occurrence.
Lines == { [banner |-> "none",    sig |-> 0, addr |-> 0],
           [banner |-> "crash",   sig |-> 1, addr |-> 1],
           [banner |-> "crash",   sig |-> 1, addr |-> 2],
           [banner |-> "timeout", sig |-> 0, addr |-> 1] }

Recognize(line) == line.banner

Normalize(line) == line.sig

Identity(line) == <<Recognize(line), Normalize(line), 0>>

Identities == {<<b, s, a>> : b \in Banners, s \in 0..1, a \in 0..2}

SyntheticTimeout == [banner |-> "timeout", sig |-> 0, addr |-> 0]

\* The parser's step on one line: state is <<seen, findings, rawCount>>.
HandleLineNoDedup(line, st) ==
    IF Recognize(line) = "none" THEN st
    ELSE [seen     |-> st.seen \cup {Identity(line)},
          findings |-> Append(st.findings, [kind |-> Recognize(line), id |-> Identity(line)]),
          rawCount |-> [st.rawCount EXCEPT ![Identity(line)] = @ + 1]]

HandleLineNewestFirst(line, st) ==
    IF Recognize(line) = "none" THEN st
    ELSE IF Identity(line) \in st.seen
         THEN [st EXCEPT !.rawCount[Identity(line)] = @ + 1]
         ELSE [seen     |-> st.seen \cup {Identity(line)},
               findings |-> <<[kind |-> Recognize(line), id |-> Identity(line)]>> \o st.findings,
               rawCount |-> [st.rawCount EXCEPT ![Identity(line)] = @ + 1]]

HandleLine(line, st) ==
    IF Recognize(line) = "none" THEN st
    ELSE IF Identity(line) \in st.seen
         THEN [st EXCEPT !.rawCount[Identity(line)] = @ + 1]
         ELSE [seen     |-> st.seen \cup {Identity(line)},
               findings |-> Append(st.findings, [kind |-> Recognize(line), id |-> Identity(line)]),
               rawCount |-> [st.rawCount EXCEPT ![Identity(line)] = @ + 1]]

ParserState == [seen |-> seen, findings |-> findings, rawCount |-> rawCount]

----------------------------------------------------------------------------
(* runOptions.validate *)

validateSeedsOnly(o, f) ==
    IF \E i \in 1..Len(o.seedsDirs) : o.seedsDirs[i] \notin f
    THEN "ErrSilent"
    ELSE "nil"

validate(o, f) ==
    IF \E i \in 1..Len(o.seedsDirs) : o.seedsDirs[i] \notin f
    THEN "ErrSilent"
    ELSE IF o.dictionary # "" /\ o.dictionary \notin f
         THEN "ErrSilent"
         ELSE "nil"

\* libfuzzer.RunnerOptions built by runFuzzTest
RunnerOptionsSandboxNoTimeout(o) ==
    [SeedsDir            |-> o.seedsDirs[1],
     AdditionalSeedsDirs |-> SubSeq(o.seedsDirs, 2, Len(o.seedsDirs)),
     Dictionary          |-> o.dictionary,
     Timeout             |-> IF o.useSandbox THEN 0 ELSE o.timeout,
     UseMinijail         |-> o.useSandbox]

RunnerOptionsNoTimeout(o) ==
    [SeedsDir            |-> o.seedsDirs[1],
     AdditionalSeedsDirs |-> SubSeq(o.seedsDirs, 2, Len(o.seedsDirs)),
     Dictionary          |-> o.dictionary,
     Timeout             |-> 0,
     UseMinijail         |-> o.useSandbox]

RunnerOptions(o) ==
    [SeedsDir            |-> o.seedsDirs[1],
     AdditionalSeedsDirs |-> SubSeq(o.seedsDirs, 2, Len(o.seedsDirs)),
     Dictionary          |-> o.dictionary,
     Timeout             |-> o.timeout,
     UseMinijail         |-> o.useSandbox]

----------------------------------------------------------------------------
(* errgroup *)

\* errgroup.Group.Go: the first non-nil error is kept and cancels the context
GroupRecord(err) ==
    /\ routinesErr' = IF err # "nil" /\ routinesErr = "nil" THEN err ELSE routinesErr
    /\ routinesCtx' = (routinesCtx \/ err # "nil")

\* errgroup.Group.Wait returns once every goroutine has returned
ListenerDone == listener \in {"returnedNil", "returnedErr"}

WaitReadyFirstTask == ListenerDone \/ runnerPc = "done"

WaitReady == ListenerDone /\ runnerPc = "done"

----------------------------------------------------------------------------
(* The coverage command: paths, environments and the sandbox builder *)

Executable         == "fuzz_test"
SeedCorpus         == "fuzz_test_seed_corpus"
GeneratedCorpusDir == ".cifuzz-corpus/fuzz_test"
CorpusReal         == "corpus"
CorpusLink         == "corpus_link"        \* a symlink to CorpusReal
MinijailBin        == "minijail0"

CovSeedPaths == {CorpusReal, CorpusLink}
CovPaths     == {Executable, SeedCorpus, GeneratedCorpusDir, CorpusReal, CorpusLink}

\* fileutil.Exists follows symlinks
Exists(path, f) ==
    IF path = CorpusLink THEN CorpusLink \in f /\ CorpusReal \in f
    ELSE path \in f

\* filepath.EvalSymlinks: the path with every symlink resolved, "" on error
EvalSymlinks(path, f) ==
    IF ~Exists(path, f) THEN ""
    ELSE IF path = CorpusLink THEN CorpusReal
    ELSE path

\* Environments are functions from variable names to values
EmptyEnv == [k \in {} |-> ""]

Setenv(env, key, value) ==
    [k \in DOMAIN env \cup {key} |-> IF k = key THEN value ELSE env[k]]

RawProfilePattern == "tmp/%m.profraw"

Environs == { EmptyEnv,
              [k \in {"PATH"} |-> "/bin"],
              [k \in {"PATH", "LLVM_PROFILE_FILE"} |->
                    IF k = "PATH" THEN "/bin" ELSE "old.profraw"] }

\* Applies Setenv for every variable of src to dst
MergeEnvReplaced(dst, src) == src

MergeEnv(dst, src) ==
    [k \in DOMAIN dst \cup DOMAIN src |-> IF k \in DOMAIN src THEN src[k] ELSE dst[k]]

\* minijail.NewMinijail: resolves the source of every binding and fails if
\* one does not exist; otherwise the command that runs Args in the sandbox
NewMinijail(args, bindings, env, f, ok) ==
    IF \E i \in 1..Len(bindings) : ~Exists(bindings[i].Source, f)
    THEN [err |-> "bindingSourceError", Args |-> <<>>]
    ELSE IF ~ok
    THEN [err |-> "minijailError", Args |-> <<>>]
    ELSE [err |-> "nil", Args |-> <<MinijailBin, "--">> \o args]

NoBuildResult == [Executable |-> "", SeedCorpus |-> ""]

NoRun == [err |-> "nil", corpusDirs |-> <<>>, args |-> <<>>, bindings |-> <<>>,
          mjRequested |-> FALSE, mjBuilt |-> FALSE, mjCleanups |-> 0,
          cmdArgs |-> <<>>, cmdEnv |-> EmptyEnv, spawned |-> 0,
          mjEnv |-> EmptyEnv, exitOk |-> FALSE]

\* io: the outcomes of the external calls made by runFuzzTest
CovIO == [existsErr : BOOLEAN, mjOk : BOOLEAN, runOk : BOOLEAN]

\* runFuzzTest: the corpus directories to use -- the user-specified ones,
\* then the build's seed corpus and the generated corpus if they exist
CorpusDirsAlwaysSeedCorpus(o, buildResult, f) ==
    LET dirs2 == Append(o.SeedCorpusDirs, buildResult.SeedCorpus)
    IN  IF Exists(GeneratedCorpusDir, f)
        THEN Append(dirs2, GeneratedCorpusDir) ELSE dirs2

CorpusDirs(o, buildResult, f) ==
    LET dirs1 == o.SeedCorpusDirs
        dirs2 == IF Exists(buildResult.SeedCorpus, f)
                 THEN Append(dirs1, buildResult.SeedCorpus) ELSE dirs1
    IN  IF Exists(GeneratedCorpusDir, f)
        THEN Append(dirs2, GeneratedCorpusDir) ELSE dirs2

\* runFuzzTest: every corpus directory is replaced by its symlink-free
\* path; the first failure is returned as an error
ResolveCorpusDirsUnchecked(dirs, f) ==
    [err  |-> "nil",
     dirs |-> [i \in 1..Len(dirs) |->
                 IF EvalSymlinks(dirs[i], f) = "" THEN dirs[i]
                 ELSE EvalSymlinks(dirs[i], f)]]

ResolveCorpusDirs(dirs, f) ==
    [err  |-> IF \E i \in 1..Len(dirs) : EvalSymlinks(dirs[i], f) = ""
              THEN "evalSymlinksError" ELSE "nil",
     dirs |-> [i \in 1..Len(dirs) |-> EvalSymlinks(dirs[i], f)]]

\* runFuzzTest: the argument vector of the fuzz test
ArgsNoSeparator(executable, corpusDirs, fuzzTestArgs) ==
    <<executable>> \o corpusDirs \o fuzzTestArgs

Args(executable, corpusDirs, fuzzTestArgs) ==
    <<executable>> \o corpusDirs \o
    (IF Len(fuzzTestArgs) > 0 THEN <<"--">> \o fuzzTestArgs ELSE <<>>)

\* runFuzzTest: the minijail bindings
BindingsExecutableOnly(executable, corpusDirs) == <<[Source |-> executable]>>

Bindings(executable, corpusDirs) ==
    <<[Source |-> executable]>> \o
    [i \in 1..Len(corpusDirs) |-> [Source |-> corpusDirs[i]]]

\* runFuzzTest: defer mj.Cleanup() after a successful NewMinijail; the
\* number of Cleanup calls made by the time runFuzzTest has returned
DeferredCleanupsOnSuccess(mjBuilt, runErr) ==
    IF mjBuilt /\ runErr = "nil" THEN 1 ELSE 0

DeferredCleanups(mjBuilt, runErr) ==
    IF mjBuilt THEN 1 ELSE 0

\* runFuzzTest: err = cmd.Run(); a command that cannot be started or that
\* exits with a non-zero status is logged and returned as ErrSilent
CmdRunErrorIgnored(started, exitOk) == "nil"

CmdRunError(started, exitOk) ==
    IF started /\ exitOk THEN "nil" ELSE "ErrSilent"

\* coverageCmd.runFuzzTest
runFuzzTest(o, buildResult, f, environ, io) ==
    LET resolved == ResolveCorpusDirs(CorpusDirs(o, buildResult, f), f)
        corpusDirs == resolved.dirs
        binaryEnv == Setenv(EmptyEnv, "LLVM_PROFILE_FILE", RawProfilePattern)
        args == Args(buildResult.Executable, corpusDirs, o.FuzzTestArgs)
        bindings == Bindings(buildResult.Executable, corpusDirs)
        mj == NewMinijail(args, bindings, binaryEnv, f, io.mjOk)
        cmdArgs == IF o.UseSandbox THEN mj.Args ELSE args
        cmdEnv == IF o.UseSandbox THEN environ ELSE MergeEnv(environ, binaryEnv)
        started == cmdArgs[1] = MinijailBin \/ Exists(cmdArgs[1], f)
        runErr == CmdRunError(started, io.runOk)
    IN  IF io.existsErr
        THEN [NoRun EXCEPT !.err = "statError"]
        ELSE IF resolved.err # "nil"
        THEN [NoRun EXCEPT !.err = resolved.err]
        ELSE IF o.UseSandbox /\ mj.err # "nil"
        THEN [NoRun EXCEPT !.err = mj.err, !.corpusDirs = corpusDirs,
                           !.args = args, !.bindings = bindings,
                           !.mjRequested = TRUE, !.mjEnv = binaryEnv]
        ELSE [err |-> runErr,
              corpusDirs |-> corpusDirs,
              args |-> args,
              bindings |-> IF o.UseSandbox THEN bindings ELSE <<>>,
              mjRequested |-> o.UseSandbox,
              mjBuilt |-> o.UseSandbox,
              mjCleanups |-> DeferredCleanups(o.UseSandbox, runErr),
              cmdArgs |-> cmdArgs,
              cmdEnv |-> cmdEnv,
              spawned |-> IF started THEN 1 ELSE 0,
              mjEnv |-> IF o.UseSandbox THEN binaryEnv ELSE EmptyEnv,
              exitOk |-> started /\ io.runOk]

----------------------------------------------------------------------------
(* countSeeds (run command): the seeds found in the seed corpus directories *)

\* The directory entries a tree may hold: path, kind, size in bytes, and
\* whether reading the entry fails (an unreadable directory)
File(path, size) == [path |-> path, isDir |-> FALSE, size |-> size, err |-> FALSE]
Dir(path, err)   == [path |-> path, isDir |-> TRUE, size |-> 0, err |-> err]

Entries ==
    {Dir(<<"seedsA">>, FALSE),
     File(<<"seedsA", "f1">>, 1), File(<<"seedsA", "f2">>, 2),
     File(<<"seedsA", "f3">>, 2), File(<<"seedsA", "empty">>, 0),
     Dir(<<"seedsA", "sub">>, FALSE), File(<<"seedsA", "sub", "g">>, 1),
     Dir(<<"seedsB">>, FALSE),
     File(<<"seedsB", "h1">>, 1), File(<<"seedsB", "h2">>, 3),
     Dir(<<"seedsB", "locked">>, TRUE)}

Parent(path) == SubSeq(path, 1, Len(path) - 1)

\* A file tree: every entry but a root lies in a directory of the tree
Trees ==
    {t \in SUBSET Entries :
        \A e \in t : Len(e.path) > 1 =>
            \E d \in t : d.isDir /\ d.path = Parent(e.path)}

Children(path, tree) == {e.path : e \in {x \in tree : Parent(x.path) = path}}

\* The callback's test: a regular entry whose info.Size() is not zero
IsSeedAnySize(e) == ~e.isDir

IsSeed(e) == ~e.isDir /\ e.size # 0

\* filepath.WalkDir(path, callback): the callback returns the error it is
\* handed, which ends the walk; directories are passed over and descended
\* into; the result is the number of seeds and the walk's error
RECURSIVE WalkDir(_, _)
RECURSIVE WalkAll(_, _)
WalkDir(path, tree) ==
    IF ~\E e \in tree : e.path = path
    THEN [n |-> 0, err |-> "walkError"]
    ELSE LET e == CHOOSE x \in tree : x.path = path IN
         IF e.err THEN [n |-> 0, err |-> "walkError"]
         ELSE IF e.isDir THEN WalkAll(Children(path, tree), tree)
         ELSE [n |-> IF IsSeed(e) THEN 1 ELSE 0, err |-> "nil"]

WalkAll(paths, tree) ==
    IF paths = {} THEN [n |-> 0, err |-> "nil"]
    ELSE LET p == CHOOSE x \in paths : TRUE
             first == WalkDir(p, tree)
             rest == WalkAll(paths \ {p}, tree)
         IN  IF first.err # "nil" THEN first
             ELSE IF rest.err # "nil" THEN rest
             ELSE [n |-> first.n + rest.n, err |-> "nil"]

\* countSeeds(seedDirs): numSeeds += seedsInDir for each directory in turn;
\* the first walk that fails makes the result 0 and the error
RECURSIVE countSeedsFrom(_, _, _, _)
countSeedsFrom(i, numSeeds, seedDirs, tree) ==
    IF i > Len(seedDirs) THEN [numSeeds |-> numSeeds, err |-> "nil"]
    ELSE LET w == WalkDir(<<seedDirs[i]>>, tree) IN
         IF w.err # "nil" THEN [numSeeds |-> 0, err |-> w.err]
         ELSE countSeedsFrom(i + 1, numSeeds + w.n, seedDirs, tree)

countSeeds(seedDirs, tree) == countSeedsFrom(1, 0, seedDirs, tree)

NoSeeds == [pc |-> "idle"]

----------------------------------------------------------------------------
(* InstallationBundler (package install) *)

\* fileutil.Cleanup(path): removes the directory and everything in it,
\* unless SKIP_CLEANUP is set
FileutilCleanup(dirExists, skipCleanup) == dirExists /\ skipCleanup

\* os.Remove(name): fails when the file does not exist
OsRemove(fileExists) ==
    [exists |-> FALSE, err |-> IF fileExists THEN "nil" ELSE "ErrNotExist"]

\* InstallationBundler.Cleanup: the error of os.Remove is discarded
BundlerCleanupStrict(b) ==
    [b EXCEPT !.targetDir = FileutilCleanup(b.targetDir, b.skipCleanup),
              !.lockFile = OsRemove(b.lockFile).exists,
              !.err = OsRemove(b.lockFile).err,
              !.removed = @ + (IF b.lockFile THEN 1 ELSE 0)
                            + (IF b.targetDir /\ ~b.skipCleanup THEN 1 ELSE 0),
              !.cleanups = IF @ < 2 THEN @ + 1 ELSE @]

BundlerCleanup(b) ==
    [b EXCEPT !.targetDir = FileutilCleanup(b.targetDir, b.skipCleanup),
              !.lockFile = OsRemove(b.lockFile).exists,
              !.removed = @ + (IF b.lockFile THEN 1 ELSE 0)
                            + (IF b.targetDir /\ ~b.skipCleanup THEN 1 ELSE 0),
              !.cleanups = IF @ < 2 THEN @ + 1 ELSE @]

\* BuildCIFuzzAndDeps: the build operations it calls, in order
BuildOps(os) ==
    IF os = "linux"
    THEN <<"BuildMinijail", "BuildProcessWrapper", "BuildCIFuzz", "CopyCMakeIntegration">>
    ELSE <<"BuildCIFuzz", "CopyCMakeIntegration">>

\* InstallationBundler.Lock can return at once when isLocked is set, and
\* otherwise only once no other process holds the file lock
CanLock(b) == b.isLocked \/ b.flock = "none"

\* InstallationBundler.Lock: nothing to do when isLocked is set; otherwise
\* i.mutex.Lock(), and isLocked is set unless that failed
Lock(b, ok) ==
    IF b.isLocked THEN [b EXCEPT !.lockErr = "nil"]
    ELSE IF ok THEN [b EXCEPT !.flock = "self", !.isLocked = TRUE, !.lockErr = "nil"]
    ELSE [b EXCEPT !.lockErr = "lockError"]

\* InstallationBundler.Unlock: i.mutex.Unlock() whatever isLocked says, and
\* isLocked is cleared unless that failed
Unlock(b, ok) ==
    [b EXCEPT !.unlocks = @ + 1,
              !.unheldUnlocks = IF b.flock = "self" THEN @ ELSE @ + 1,
              !.flock = IF ok /\ b.flock = "self" THEN "none" ELSE @,
              !.isLocked = IF ok THEN FALSE ELSE @]

NoBun == [pc |-> "idle"]

----------------------------------------------------------------------------
(* Package stubs: Create and FuzzTestFilename *)

MaxStubFiles == 2       \* numbered fuzz test files that may exist beforehand

\* config.CPP, the only test type with a template, and a type without one
CPP == "cpp"
FuzzTestTypes == {CPP, "other"}

\* go:embed fuzz-test.cpp.tmpl
cppStub == "fuzz-test.cpp.tmpl"

\* fmt.Sprintf("%s_%d.%s", basename, counter, ext)
Sprintf(basename, counter, ext) ==
    basename \o "_" \o ToString(counter) \o "." \o ext

\* filepath.Join(dir, name): the joined path is cleaned, so that "." as
\* directory leaves the name alone
Join(dir, name) == IF dir = "." THEN name ELSE dir \o "/" \o name

\* The paths of the working directory that may be there before the call.
\* A path is absent, holds a file of the user, or cannot be examined
\* (os.Stat fails with an error other than "not exist")
StubPaths == {Sprintf("my_fuzz_test", i, "cpp") : i \in 1..MaxStubFiles} \cup {"other.cpp"}
StubFiles == [StubPaths -> {"absent", "user", "noaccess"}]

\* os.Stat(path); the empty path and every path not listed do not exist
Stat(files, path) == IF path \in DOMAIN files THEN files[path] ELSE "absent"

\* fileutil.Exists(path)
FileutilExists(files, path) ==
    IF Stat(files, path) = "noaccess" THEN [exists |-> FALSE, err |-> "statError"]
    ELSE [exists |-> Stat(files, path) # "absent", err |-> "nil"]

\* os.WriteFile(path, content, 0644): the file is opened with
\* O_WRONLY|O_CREATE|O_TRUNC and written; w is what the operating system
\* makes of it
WriteFile(files, path, content, w) ==
    IF w = "ok" THEN [files |-> [files EXCEPT ![path] = content], err |-> "nil"]
    ELSE IF w = "openError" THEN [files |-> files, err |-> "writeError"]
    ELSE [files |-> [files EXCEPT ![path] = "partial"], err |-> "writeError"]

CreateOverwrites(files, path, testType, w) ==
    LET content == IF testType = CPP THEN cppStub ELSE "nil" IN
    IF content # "nil" /\ path # "" THEN WriteFile(files, path, content, w)
    ELSE [files |-> files, err |-> "nil"]

\* stubs.Create(path, testType)
Create(files, path, testType, w) ==
    LET e == FileutilExists(files, path)
        content == IF testType = CPP THEN cppStub ELSE "nil"
    IN IF e.err # "nil" THEN [files |-> files, err |-> e.err]
       ELSE IF e.exists THEN [files |-> files, err |-> "ErrExist"]
       ELSE IF content # "nil" /\ path # "" THEN WriteFile(files, path, content, w)
       ELSE [files |-> files, err |-> "nil"]

NoStubs == [pc |-> "idle"]

----------------------------------------------------------------------------
(* Initial state *)

NoCov == [pc |-> "idle"]

\* The paths named on the command line; only their existence matters
Named(o) == {o.seedsDirs[i] : i \in 1..Len(o.seedsDirs)} \cup ({o.dictionary} \ {""})

\* The platforms the command is built for (Makefile); off Linux the run is
\* started without --seeds-dir and --dict
GOOS == {"linux", "darwin"}

InitRun ==
    /\ command = "run"
    /\ opts \in [seedsDirs  : SeqsUpTo(SeedPaths, MaxSeedsDirs),
                 dictionary : {"", DictPath},
                 timeout    : Timeouts,
                 useSandbox : BOOLEAN]
    /\ fs \in SUBSET Named(opts)
    /\ pc = "PreRunE"
    /\ cov = NoCov
    /\ goos \in GOOS
    /\ goos # "linux" => opts.seedsDirs = <<>> /\ opts.dictionary = ""
    /\ bun = NoBun
    /\ seeds = NoSeeds
    /\ stubs = NoStubs

NoRunnerOptions ==
    [SeedsDir |-> "", AdditionalSeedsDirs |-> <<>>, Dictionary |-> "",
     Timeout |-> 0, UseMinijail |-> FALSE]

InitCommon ==
    /\ runnerOpts = NoRunnerOptions
    /\ cmdErr = "nil"
    /\ numValidate = 0
    /\ numBuild = 0
    /\ numSpawn = 0
    /\ notified = FALSE
    /\ sigs = 0
    /\ signalHandlerCtx = FALSE
    /\ routinesCtx = FALSE
    /\ routinesErr = "nil"
    /\ listener = "idle"
    /\ runnerPc = "idle"
    /\ runnerRet = "nil"
    /\ proc = "none"
    /\ exitCode = 0
    /\ killedBy = "none"
    /\ pipe = <<>>
    /\ stream = <<>>
    /\ seen = {}
    /\ findings = <<>>
    /\ rawCount = [i \in Identities |-> 0]
    /\ timer = "off"
    /\ resources = FALSE
    /\ acquired = FALSE
    /\ cleanupCalls = 0
    /\ removals = 0
    /\ metricsPrinted = 0

NoRunOptions == [seedsDirs |-> <<>>, dictionary |-> "", timeout |-> 0, useSandbox |-> FALSE]

InitCoverage ==
    /\ command = "coverage"
    /\ fs \in SUBSET CovPaths
    /\ opts = NoRunOptions
    /\ pc = "none"
    /\ \E o \in [SeedCorpusDirs : SeqsUpTo(CovSeedPaths, MaxSeedsDirs),
                 FuzzTestArgs   : {<<>>, <<"-runs=1">>},
                 UseSandbox     : BOOLEAN],
          e \in Environs, k \in BOOLEAN :
         cov = [pc |-> "PreRunE", opts |-> o, environ |-> e, err |-> "nil",
                skipCleanup |-> k, tmpCreated |-> FALSE,
                tmpDir |-> FALSE, tmpCleanups |-> 0,
                buildResult |-> NoBuildResult, run |-> NoRun]
    /\ goos \in GOOS
    /\ bun = NoBun
    /\ seeds = NoSeeds
    /\ stubs = NoStubs

\* A call of countSeeds on a list of seed directories and a file tree
InitCountSeeds ==
    /\ command = "countSeeds"
    /\ fs = {}
    /\ opts = NoRunOptions
    /\ pc = "none"
    /\ cov = NoCov
    /\ goos = "linux"
    /\ bun = NoBun
    /\ stubs = NoStubs
    /\ \E dirs \in SeqsUpTo(SeedPaths, MaxSeedsDirs), t \in Trees :
         seeds = [pc |-> "call", seedDirs |-> dirs, tree |-> t,
                  numSeeds |-> 0, err |-> "nil"]

\* The bundler program: the target directory and the lock file may be left
\* over from an earlier run
InitBundler ==
    /\ command = "bundler"
    /\ fs = {}
    /\ opts = NoRunOptions
    /\ pc = "none"
    /\ cov = NoCov
    /\ goos \in GOOS
    /\ seeds = NoSeeds
    /\ stubs = NoStubs
    /\ \E v \in {"", "v0.0.1"}, t \in BOOLEAN, l \in BOOLEAN, k \in BOOLEAN :
         bun = [pc |-> "new", version |-> v, targetDir |-> t, lockFile |-> l,
                skipCleanup |-> k, obj |-> FALSE, err |-> "nil",
                removed |-> 0, cleanups |-> 0,
                isLocked |-> FALSE, flock |-> "none", lockErr |-> "nil",
                ops |-> <<>>, stepsDone |-> 0,
                unlocks |-> 0, unheldUnlocks |-> 0, buildErr |-> "nil"]

\* A call of stubs.Create or of stubs.FuzzTestFilename in a working directory
InitStubs ==
    /\ command = "stubs"
    /\ fs = {}
    /\ opts = NoRunOptions
    /\ pc = "none"
    /\ cov = NoCov
    /\ goos = "linux"
    /\ bun = NoBun
    /\ seeds = NoSeeds
    /\ \E op \in {"Create", "FuzzTestFilename"}, f \in StubFiles,
          p \in StubPaths \cup {""}, t \in FuzzTestTypes :
         /\ op = "FuzzTestFilename" => p = ""
         /\ stubs = [pc |-> "call", op |-> op, files |-> f, path |-> p,
                     testType |-> t, basename |-> "", ext |-> "", counter |-> 0,
                     filename |-> "", name |-> "", err |-> "nil"]

Init == InitCommon /\ (InitRun \/ InitCoverage \/ InitCountSeeds \/ InitBundler \/ InitStubs)

----------------------------------------------------------------------------
(* The run command's main goroutine *)

\* runFuzzTest: without --seeds-dir the default corpus directory is created
\* (os.MkdirAll) and becomes the only seeds directory
DefaultSeedsDirsNoMkdir(o, f) ==
    IF Len(o.seedsDirs) = 0
    THEN [fs |-> f, opts |-> [o EXCEPT !.seedsDirs = <<DefaultCorpusDir>>]]
    ELSE [fs |-> f, opts |-> o]

DefaultSeedsDirs(o, f) ==
    IF Len(o.seedsDirs) = 0
    THEN [fs   |-> f \cup {DefaultCorpusDir},
          opts |-> [o EXCEPT !.seedsDirs = <<DefaultCorpusDir>>]]
    ELSE [fs |-> f, opts |-> o]

Exit(err) == pc' = "exit" /\ cmdErr' = err

\* cobra PreRunE: opts.validate(); a non-nil error ends the command and RunE
\* is not called
PreRunE ==
    /\ command = "run" /\ pc = "PreRunE"
    /\ numValidate' = numValidate + 1
    /\ IF validate(opts, fs) # "nil"
       THEN Exit(validate(opts, fs))
       ELSE pc' = "buildFuzzTest" /\ cmdErr' = cmdErr
    /\ UNCHANGED <<command, fs, opts, runnerOpts, numBuild, metricsPrinted, cov, goos, bun, seeds, stubs>>
    /\ UNCHANGED <<groupVars, sigVars, procVars, parserVars, cleanVars,
                   listener, runnerPc, runnerRet>>

\* runCmd.run: c.buildFuzzTest() followed by NewReportHandler
BuildFuzzTest ==
    /\ command = "run" /\ pc = "buildFuzzTest"
    /\ \E outcome \in {"configError", "buildError", "handlerError", "ok"} :
         /\ numBuild' = IF outcome = "configError" THEN numBuild ELSE numBuild + 1
         /\ IF outcome = "ok"
            THEN pc' = "runFuzzTest" /\ cmdErr' = cmdErr
            ELSE Exit(outcome)
    /\ UNCHANGED <<command, fs, opts, runnerOpts, numValidate, metricsPrinted, cov, goos, bun, seeds, stubs>>
    /\ UNCHANGED <<groupVars, sigVars, procVars, parserVars, cleanVars,
                   listener, runnerPc, runnerRet>>

\* runCmd.runFuzzTest up to routines.Wait(): find the executable, default
\* the corpus directory, build the runner, register the signals and start
\* the two goroutines
RunFuzzTest ==
    /\ command = "run" /\ pc = "runFuzzTest"
    /\ \E outcome \in {"executableNotFound", "ok"}
                     \cup (IF Len(opts.seedsDirs) = 0 THEN {"mkdirError"} ELSE {}) :
         IF outcome # "ok"
         THEN /\ Exit(outcome)
              /\ UNCHANGED <<fs, opts, runnerOpts, notified, listener, runnerPc>>
         ELSE /\ fs' = DefaultSeedsDirs(opts, fs).fs
              /\ opts' = DefaultSeedsDirs(opts, fs).opts
              /\ runnerOpts' = RunnerOptions(opts')
              /\ notified' = TRUE
              /\ listener' = "select"
              /\ runnerPc' = "start"
              /\ pc' = "Wait" /\ cmdErr' = cmdErr
    /\ UNCHANGED <<command, numValidate, numBuild, metricsPrinted, cov, goos, bun, seeds, stubs>>
    /\ UNCHANGED <<groupVars, sigs, procVars, parserVars, cleanVars,
                   runnerRet>>

\* routines.Wait() and the rest of runCmd.run
Wait ==
    /\ command = "run" /\ pc = "Wait"
    /\ WaitReady
    /\ routinesCtx' = TRUE
    /\ IF routinesErr # "nil"
       THEN Exit(routinesErr)
       ELSE pc' = "printFinalMetrics" /\ cmdErr' = cmdErr
    /\ UNCHANGED <<command, fs, opts, runnerOpts, numValidate, numBuild, metricsPrinted, cov, goos, bun, seeds, stubs>>
    /\ UNCHANGED <<signalHandlerCtx, routinesErr, sigVars, procVars, parserVars,
                   cleanVars, listener, runnerPc, runnerRet>>

\* runCmd.printFinalMetrics: countSeeds, then ReportHandler.PrintFinalMetrics
PrintFinalMetrics ==
    /\ command = "run" /\ pc = "printFinalMetrics"
    /\ \E outcome \in {"walkError", "metricsError", "nil"} :
         /\ metricsPrinted' = IF outcome = "walkError" THEN metricsPrinted
                              ELSE metricsPrinted + 1
         /\ Exit(outcome)
    /\ UNCHANGED <<command, fs, opts, runnerOpts, numValidate, numBuild, cov, goos, bun, seeds, stubs>>
    /\ UNCHANGED <<groupVars, sigVars, procVars, parserVars, cleanVars,
                   listener, runnerPc, runnerRet>>

----------------------------------------------------------------------------
(* The operating system and the fuzz target subprocess *)

\* A termination signal is relayed to sigs; signal.Notify never blocks, so
\* a signal arriving while the channel is full is dropped
DeliverSignal ==
    /\ command = "run" /\ notified
    /\ sigs' = IF sigs < SigsCap THEN sigs + 1 ELSE sigs
    /\ UNCHANGED <<command, fs, opts, mainVars, groupVars, notified, procVars,
                   parserVars, cleanVars, listener, runnerPc, runnerRet, cov, goos, bun, seeds, stubs>>

\* The subprocess writes one line of diagnostic output
ProcOutput ==
    /\ proc = "live"
    /\ Len(stream) < MaxLines
    /\ \E line \in Lines :
         /\ pipe' = Append(pipe, line)
         /\ stream' = Append(stream, line)
    /\ UNCHANGED <<command, fs, opts, mainVars, groupVars, sigVars, proc,
                   exitCode, killedBy, timer, numSpawn, parserVars, cleanVars,
                   listener, runnerPc, runnerRet, cov, goos, bun, seeds, stubs>>

\* The subprocess exits on its own
ProcExit ==
    /\ proc = "live"
    /\ \E code \in {0, 1} :
         /\ proc' = "exited"
         /\ exitCode' = code
    /\ UNCHANGED <<command, fs, opts, mainVars, groupVars, sigVars, killedBy,
                   pipe, stream, timer, numSpawn, parserVars, cleanVars,
                   listener, runnerPc, runnerRet, cov, goos, bun, seeds, stubs>>

----------------------------------------------------------------------------
(* runner.Cleanup: terminates the subprocess and removes the sandbox-owned *)
(* temporary resources; a call after the first one finds nothing to do     *)

Cleanup(by) ==
    /\ cleanupCalls' = cleanupCalls + 1
    /\ IF proc = "live"
       THEN proc' = "killed" /\ killedBy' = by
       ELSE UNCHANGED <<proc, killedBy>>
    /\ IF resources
       THEN resources' = FALSE /\ removals' = removals + 1
       ELSE UNCHANGED <<resources, removals>>
    /\ UNCHANGED acquired

----------------------------------------------------------------------------
(* The signal listener goroutine (first routines.Go) *)

\* select: case <-signalHandlerCtx.Done(): return nil
ListenerCtxDoneCleanup ==
    /\ listener = "select"
    /\ signalHandlerCtx
    /\ Cleanup("cleanup")
    /\ listener' = "returnedNil"
    /\ UNCHANGED <<command, fs, opts, mainVars, groupVars, sigVars, exitCode,
                   pipe, stream, timer, numSpawn, parserVars, runnerPc,
                   runnerRet, cov, goos, bun, seeds, stubs>>

ListenerCtxDone ==
    /\ listener = "select"
    /\ signalHandlerCtx
    /\ listener' = "returnedNil"
    /\ UNCHANGED <<command, fs, opts, mainVars, groupVars, sigVars, procVars,
                   parserVars, cleanVars, runnerPc, runnerRet, cov, goos, bun, seeds, stubs>>

\* select: case s := <-sigs
ListenerReceive ==
    /\ listener = "select"
    /\ sigs > 0
    /\ sigs' = sigs - 1
    /\ listener' = "received"
    /\ UNCHANGED <<command, fs, opts, mainVars, groupVars, notified,
                   procVars, parserVars, cleanVars, runnerPc, runnerRet, cov, goos, bun, seeds, stubs>>

\* runner.Cleanup()
ListenerCleanup ==
    /\ listener = "received"
    /\ Cleanup("cleanup")
    /\ listener' = "cleaned"
    /\ UNCHANGED <<command, fs, opts, mainVars, groupVars, sigVars, exitCode,
                   pipe, stream, timer, numSpawn, parserVars, runnerPc,
                   runnerRet, cov, goos, bun, seeds, stubs>>

\* return cmdutils.WrapSilentError(cmdutils.NewSignalError(s))
ListenerReturnAndLoop ==
    /\ listener = "cleaned"
    /\ GroupRecord("SignalError")
    /\ listener' = "select"
    /\ UNCHANGED <<command, fs, opts, mainVars, signalHandlerCtx, sigVars,
                   procVars, parserVars, cleanVars, runnerPc, runnerRet, cov, goos, bun, seeds, stubs>>

ListenerReturn ==
    /\ listener = "cleaned"
    /\ GroupRecord("SignalError")
    /\ listener' = "returnedErr"
    /\ UNCHANGED <<command, fs, opts, mainVars, signalHandlerCtx, sigVars,
                   procVars, parserVars, cleanVars, runnerPc, runnerRet, cov, goos, bun, seeds, stubs>>

----------------------------------------------------------------------------
(* The runner goroutine (second routines.Go): runner.Run(routinesCtx)      *)

\* Run starts: with a context that is already cancelled it returns at once,
\* and so it does when the sandbox is requested on a platform without it;
\* otherwise it creates the sandbox resources (if sandboxed), spawns the
\* subprocess and starts the timeout timer
RunnerStart ==
    /\ runnerPc = "start"
    /\ IF routinesCtx \/ (runnerOpts.UseMinijail /\ goos # "linux")
       THEN /\ runnerRet' = IF routinesCtx THEN "Cancelled"
                            ELSE "UnsupportedPlatformError"
            /\ runnerPc' = "returned"
            /\ UNCHANGED <<procVars, cleanVars>>
       ELSE /\ proc' = "live"
            /\ numSpawn' = numSpawn + 1
            /\ resources' = runnerOpts.UseMinijail
            /\ acquired' = runnerOpts.UseMinijail
            /\ timer' = IF runnerOpts.Timeout > 0 THEN "armed" ELSE "off"
            /\ runnerPc' = "running"
            /\ UNCHANGED <<runnerRet, exitCode, killedBy, pipe, stream,
                           cleanupCalls, removals>>
    /\ UNCHANGED <<command, fs, opts, mainVars, groupVars, sigVars, parserVars,
                   listener, cov, goos, bun, seeds, stubs>>

\* The output-reading loop takes the next line and runs the parser on it
RunnerRead ==
    /\ runnerPc = "running"
    /\ pipe # <<>>
    /\ LET st == HandleLine(Head(pipe), ParserState) IN
         /\ seen' = st.seen
         /\ findings' = st.findings
         /\ rawCount' = st.rawCount
    /\ pipe' = Tail(pipe)
    /\ UNCHANGED <<command, fs, opts, mainVars, groupVars, sigVars, proc,
                   exitCode, killedBy, stream, timer, numSpawn, cleanVars,
                   listener, runnerPc, runnerRet, cov, goos, bun, seeds, stubs>>

\* The timeout timer expires: the subprocess is sent a termination signal
TimerExpire ==
    /\ runnerPc = "running"
    /\ timer = "armed"
    /\ proc = "live"
    /\ timer' = "fired"
    /\ proc' = "killed"
    /\ killedBy' = "timeout"
    /\ UNCHANGED <<command, fs, opts, mainVars, groupVars, sigVars, exitCode,
                   pipe, stream, numSpawn, parserVars, cleanVars, listener,
                   runnerPc, runnerRet, cov, goos, bun, seeds, stubs>>

\* Run observes the cancellation of its context and terminates the subprocess
RunnerObserveCancel ==
    /\ runnerPc = "running"
    /\ routinesCtx
    /\ proc = "live"
    /\ proc' = "killed"
    /\ killedBy' = "cancel"
    /\ UNCHANGED <<command, fs, opts, mainVars, groupVars, sigVars, exitCode,
                   pipe, stream, timer, numSpawn, parserVars, cleanVars,
                   listener, runnerPc, runnerRet, cov, goos, bun, seeds, stubs>>

HasTimeoutFinding(fnds) == \E i \in 1..Len(fnds) : fnds[i].kind = "timeout"

\* The error Run returns once the subprocess is gone and its output drained
RunResults(fnds) ==
    IF routinesCtx THEN {"Cancelled"}
    ELSE IF fnds # <<>> THEN {"nil", "FindingError"}
    ELSE IF proc = "killed" \/ exitCode # 0 THEN {"UnrecognizedFailure"}
    ELSE {"nil"}

\* Run returns: the subprocess has terminated and the stream is drained; a
\* timeout finding is synthesized after a timer expiry the subprocess did
\* not report itself; the finalizer runs Cleanup
RunnerFinish ==
    /\ runnerPc = "running"
    /\ proc \in {"exited", "killed"}
    /\ pipe = <<>>
    /\ LET st == IF timer = "fired" /\ ~HasTimeoutFinding(findings)
                 THEN HandleLine(SyntheticTimeout, ParserState)
                 ELSE ParserState
       IN /\ seen' = st.seen
          /\ findings' = st.findings
          /\ rawCount' = st.rawCount
          /\ \E r \in RunResults(st.findings) : runnerRet' = r
    /\ Cleanup("finalizer")
    /\ runnerPc' = "returned"
    /\ UNCHANGED <<command, fs, opts, mainVars, groupVars, sigVars, exitCode,
                   pipe, stream, timer, numSpawn, listener, cov, goos, bun, seeds, stubs>>

\* The goroutine function returns: the deferred cancelSignalHandler() runs
\* and the errgroup records the error
RunnerGoReturnNoCancel ==
    /\ runnerPc = "returned"
    /\ GroupRecord(runnerRet)
    /\ runnerPc' = "done"
    /\ UNCHANGED <<command, fs, opts, mainVars, signalHandlerCtx, sigVars,
                   procVars, parserVars, cleanVars, listener, runnerRet, cov, goos, bun, seeds, stubs>>

RunnerGoReturn ==
    /\ runnerPc = "returned"
    /\ signalHandlerCtx' = TRUE
    /\ routinesErr' = IF runnerRet # "nil" /\ routinesErr = "nil"
                      THEN runnerRet ELSE routinesErr
    /\ routinesCtx' = TRUE
    /\ runnerPc' = "done"
    /\ UNCHANGED <<command, fs, opts, mainVars, sigVars, procVars, parserVars,
                   cleanVars, listener, runnerRet, cov, goos, bun, seeds, stubs>>

----------------------------------------------------------------------------
(* The coverage command's steps *)

runUnchanged == <<command, fs, opts, mainVars, groupVars, sigVars, procVars,
                  parserVars, cleanVars, listener, runnerPc, runnerRet,
                  goos, bun, seeds, stubs>>

\* return err from coverageCmd.run: the deferred fileutil.Cleanup(c.tmpDir)
\* runs once the temporary directory has been created
CovExitNoCleanupOnError(c, err) ==
    [c EXCEPT !.pc = "exit", !.err = err,
              !.tmpDir = IF err = "nil" THEN FileutilCleanup(c.tmpDir, c.skipCleanup)
                         ELSE @,
              !.tmpCleanups = IF c.tmpCreated /\ err = "nil" THEN @ + 1 ELSE @]

CovExit(c, err) ==
    [c EXCEPT !.pc = "exit", !.err = err,
              !.tmpDir = FileutilCleanup(c.tmpDir, c.skipCleanup),
              !.tmpCleanups = IF c.tmpCreated THEN @ + 1 ELSE @]

\* PreRunE: ParseProjectConfig and coverageOptions.validate
CovPreRunE ==
    /\ command = "coverage" /\ cov.pc = "PreRunE"
    /\ \E ok \in BOOLEAN :
         cov' = IF ok THEN [cov EXCEPT !.pc = "mkTmp"]
                ELSE CovExit(cov, "ErrSilent")
    /\ UNCHANGED runUnchanged

\* coverageCmd.run: os.MkdirAll / os.MkdirTemp and the deferred cleanup
CovMkTmp ==
    /\ command = "coverage" /\ cov.pc = "mkTmp"
    /\ \E ok \in BOOLEAN :
         cov' = IF ok THEN [cov EXCEPT !.pc = "buildFuzzTest", !.tmpDir = TRUE,
                                      !.tmpCreated = TRUE]
                ELSE CovExit(cov, "mkdirError")
    /\ UNCHANGED runUnchanged

\* coverageCmd.buildFuzzTest
CovBuildFuzzTest ==
    /\ command = "coverage" /\ cov.pc = "buildFuzzTest"
    /\ \E ok \in BOOLEAN :
         cov' = IF ok
                THEN [cov EXCEPT !.pc = "runFuzzTest",
                                 !.buildResult = [Executable |-> Executable,
                                                  SeedCorpus |-> SeedCorpus]]
                ELSE CovExit(cov, "buildError")
    /\ UNCHANGED runUnchanged

\* errors.As(err, &exitErr): the error is, or wraps, an *exec.ExitError
IsExitError(err) == err = "ExitError"

\* coverageCmd.run: the error returned for a failed runFuzzTest
RunFuzzTestError(err, useSandbox) ==
    IF IsExitError(err) /\ useSandbox THEN "CouldBeSandboxError" ELSE err

\* err = c.runFuzzTest(buildResult) and the error handling that follows
CovRunFuzzTest ==
    /\ command = "coverage" /\ cov.pc = "runFuzzTest"
    /\ \E io \in CovIO :
         LET r == runFuzzTest(cov.opts, cov.buildResult, fs, cov.environ, io) IN
         cov' = IF r.err # "nil"
                THEN CovExit([cov EXCEPT !.run = r],
                             RunFuzzTestError(r.err, cov.opts.UseSandbox))
                ELSE [cov EXCEPT !.run = r, !.pc = "indexRawProfile"]
    /\ UNCHANGED runUnchanged

\* c.indexRawProfile and c.generateHTMLReport
CovReport ==
    /\ command = "coverage" /\ cov.pc = "indexRawProfile"
    /\ \E outcome \in {"indexError", "reportError", "nil"} :
         cov' = CovExit(cov, outcome)
    /\ UNCHANGED runUnchanged

----------------------------------------------------------------------------
(* printFinalMetrics' call of countSeeds, and the bundler's steps *)

harnessUnchanged == <<command, fs, opts, mainVars, groupVars, sigVars, procVars,
                      parserVars, cleanVars, listener, runnerPc, runnerRet,
                      cov, goos>>

\* numSeeds, err := countSeeds(seedDirs)
CountSeeds ==
    /\ command = "countSeeds" /\ seeds.pc = "call"
    /\ LET r == countSeeds(seeds.seedDirs, seeds.tree) IN
         seeds' = [seeds EXCEPT !.pc = "returned", !.numSeeds = r.numSeeds,
                                !.err = r.err]
    /\ UNCHANGED <<harnessUnchanged, bun, stubs>>

\* install.NewInstallationBundler(opts): validates the options, creates the
\* file mutex (and with it the lock file) and the directory layout; a
\* directory that cannot be created makes createDirectoryLayout call Cleanup
BundlerNew ==
    /\ command = "bundler" /\ bun.pc = "new"
    /\ IF bun.version = ""
       THEN bun' = [bun EXCEPT !.pc = "ready"]
       ELSE \E outcome \in {"targetDirError", "projectDirError", "mutexError",
                             "mkdirError", "ok"}, partial \in BOOLEAN :
              bun' = CASE outcome = "ok" ->
                            [bun EXCEPT !.pc = "ready", !.obj = TRUE,
                                        !.lockFile = TRUE, !.targetDir = TRUE]
                       [] outcome = "mkdirError" ->
                            [BundlerCleanup([bun EXCEPT !.lockFile = TRUE,
                                                        !.targetDir = @ \/ partial])
                                EXCEPT !.pc = "exit", !.err = outcome]
                       [] OTHER -> [bun EXCEPT !.pc = "exit", !.err = outcome]
    /\ UNCHANGED <<harnessUnchanged, seeds, stubs>>

\* A client of the package calls InstallationBundler.Cleanup
BundlerCleanupCall ==
    /\ command = "bundler" /\ bun.pc = "ready" /\ bun.obj
    /\ bun' = BundlerCleanup(bun)
    /\ UNCHANGED <<harnessUnchanged, seeds, stubs>>

\* main: err = bundler.BuildCIFuzzAndDeps(), up to its i.Lock(); called on a
\* nil bundler the method dereferences nil in Lock and the program panics
BundlerBuildLock ==
    /\ command = "bundler" /\ bun.pc = "ready"
    /\ IF ~bun.obj
       THEN bun' = [bun EXCEPT !.pc = "panic"]
       ELSE /\ CanLock(bun)
            /\ \E ok \in BOOLEAN :
                 LET b == Lock(bun, ok) IN
                 bun' = IF b.lockErr # "nil"
                        THEN [b EXCEPT !.pc = "exit", !.buildErr = b.lockErr]
                        ELSE [b EXCEPT !.pc = "opLock", !.ops = BuildOps(goos)]
    /\ UNCHANGED <<harnessUnchanged, seeds, stubs>>

\* BuildMinijail, BuildProcessWrapper, BuildCIFuzz, CopyCMakeIntegration:
\* each starts with i.Lock(); an error is returned before the deferred
\* Unlock is registered
BundlerOpLock ==
    /\ command = "bundler" /\ bun.pc = "opLock"
    /\ CanLock(bun)
    /\ \E ok \in BOOLEAN :
         LET b == Lock(bun, ok) IN
         bun' = IF b.lockErr # "nil"
                THEN [b EXCEPT !.pc = "outerUnlock", !.buildErr = b.lockErr]
                ELSE [b EXCEPT !.pc = "opRun"]
    /\ UNCHANGED <<harnessUnchanged, seeds, stubs>>

\* The build step of the operation: a command is run or files are copied
BundlerOpRun ==
    /\ command = "bundler" /\ bun.pc = "opRun"
    /\ \E ok \in BOOLEAN :
         bun' = [bun EXCEPT !.pc = "opUnlock",
                            !.stepsDone = @ + 1,
                            !.buildErr = IF ok THEN "nil" ELSE "buildError"]
    /\ UNCHANGED <<harnessUnchanged, seeds, stubs>>

\* The operation returns: its deferred i.Unlock() runs; BuildCIFuzzAndDeps
\* goes on with the next operation or returns the error
BundlerOpUnlock ==
    /\ command = "bundler" /\ bun.pc = "opUnlock"
    /\ \E ok \in BOOLEAN :
         LET b == Unlock(bun, ok) IN
         bun' = IF b.buildErr # "nil" \/ Len(b.ops) = 1
                THEN [b EXCEPT !.pc = "outerUnlock", !.ops = Tail(@)]
                ELSE [b EXCEPT !.pc = "opLock", !.ops = Tail(@)]
    /\ UNCHANGED <<harnessUnchanged, seeds, stubs>>

\* BuildCIFuzzAndDeps returns: its deferred i.Unlock() runs
BundlerBuildUnlock ==
    /\ command = "bundler" /\ bun.pc = "outerUnlock"
    /\ \E ok \in BOOLEAN :
         bun' = [Unlock(bun, ok) EXCEPT !.pc = "exit"]
    /\ UNCHANGED <<harnessUnchanged, seeds, stubs>>

\* Another instance of the installer takes the file lock when it is free,
\* runs a build step of its own and releases the lock
OtherInstanceLock ==
    /\ command = "bundler" /\ bun.pc # "new"
    /\ bun.flock = "none"
    /\ bun' = [bun EXCEPT !.flock = "other"]
    /\ UNCHANGED <<harnessUnchanged, seeds, stubs>>

OtherInstanceUnlock ==
    /\ command = "bundler"
    /\ bun.flock = "other"
    /\ bun' = [bun EXCEPT !.flock = "none"]
    /\ UNCHANGED <<harnessUnchanged, seeds, stubs>>

\* err := stubs.Create(path, testType)
StubsCreate ==
    /\ command = "stubs" /\ stubs.op = "Create" /\ stubs.pc = "call"
    /\ \E w \in {"ok", "openError", "writeError"} :
         LET r == Create(stubs.files, stubs.path, stubs.testType, w) IN
           stubs' = [stubs EXCEPT !.pc = "returned", !.files = r.files, !.err = r.err]
    /\ UNCHANGED <<harnessUnchanged, bun, seeds>>

\* FuzzTestFilename: the switch on the test type
FuzzTestFilenameSwitch ==
    /\ command = "stubs" /\ stubs.op = "FuzzTestFilename" /\ stubs.pc = "call"
    /\ IF stubs.testType = CPP
       THEN stubs' = [stubs EXCEPT !.pc = "loop", !.ext = "cpp",
                                   !.basename = "my_fuzz_test", !.counter = 1]
       ELSE stubs' = [stubs EXCEPT !.pc = "returned", !.name = "",
                                   !.err = "unknownTestType"]
    /\ UNCHANGED <<harnessUnchanged, bun, seeds>>

FuzzTestFilenameLoopNoProbe ==
    /\ command = "stubs" /\ stubs.op = "FuzzTestFilename" /\ stubs.pc = "loop"
    /\ LET filename == Join(".", Sprintf(stubs.basename, stubs.counter, stubs.ext)) IN
         stubs' = [stubs EXCEPT !.filename = filename, !.pc = "returned",
                                !.name = filename, !.err = "nil"]
    /\ UNCHANGED <<harnessUnchanged, bun, seeds>>

\* FuzzTestFilename: one turn of the loop over the counter
FuzzTestFilenameLoop ==
    /\ command = "stubs" /\ stubs.op = "FuzzTestFilename" /\ stubs.pc = "loop"
    /\ LET filename == Join(".", Sprintf(stubs.basename, stubs.counter, stubs.ext))
           e == FileutilExists(stubs.files, filename)
       IN IF e.err # "nil"
          THEN stubs' = [stubs EXCEPT !.filename = filename, !.pc = "returned",
                                      !.name = "", !.err = e.err]
          ELSE IF ~e.exists
          THEN stubs' = [stubs EXCEPT !.filename = filename, !.pc = "returned",
                                      !.name = filename, !.err = "nil"]
          ELSE stubs' = [stubs EXCEPT !.filename = filename, !.counter = @ + 1]
    /\ UNCHANGED <<harnessUnchanged, bun, seeds>>

----------------------------------------------------------------------------
(* Specifications *)

Main == PreRunE \/ BuildFuzzTest \/ RunFuzzTest \/ Wait \/ PrintFinalMetrics

Listener == ListenerCtxDone \/ ListenerReceive \/ ListenerCleanup \/ ListenerReturn

Runner == RunnerStart \/ RunnerRead \/ RunnerObserveCancel \/ RunnerFinish \/ RunnerGoReturn

Environment == DeliverSignal \/ ProcOutput \/ ProcExit

NextRun == Main \/ Listener \/ Runner \/ TimerExpire \/ Environment

NextCoverage == CovPreRunE \/ CovMkTmp \/ CovBuildFuzzTest \/ CovRunFuzzTest \/ CovReport

NextBundler ==
    \/ BundlerNew \/ BundlerCleanupCall
    \/ BundlerBuildLock \/ BundlerOpLock \/ BundlerOpRun \/ BundlerOpUnlock
    \/ BundlerBuildUnlock
    \/ OtherInstanceLock \/ OtherInstanceUnlock

NextStubs == StubsCreate \/ FuzzTestFilenameSwitch \/ FuzzTestFilenameLoop

Next == NextRun \/ NextCoverage \/ CountSeeds \/ NextBundler \/ NextStubs

Spec == Init /\ [][Next]_vars

\* The run command under the scheduling the Go runtime guarantees: every
\* goroutine that can take a step eventually takes one, and an armed timer
\* expires.  Nothing forces the subprocess to write or exit, nor a signal
\* to arrive.  The run is started without --seeds-dir and --dict, so that
\* validation passes; the timeout and the sandbox flag range over all values.
InitFair ==
    /\ InitCommon
    /\ InitRun
    /\ opts.seedsDirs = <<>>
    /\ opts.dictionary = ""

FairSpec ==
    /\ InitFair
    /\ [][NextRun]_vars
    /\ WF_vars(Main)
    /\ WF_vars(Listener)
    /\ WF_vars(Runner)
    /\ WF_vars(TimerExpire)

----------------------------------------------------------------------------
(* Properties *)

\* C1: when a termination signal is handled while the run is in progress
\* (the listener's Cleanup terminated the live subprocess) and no finding
\* has been emitted, the error returned by routines.Wait(), and so by the
\* command, is the silent signal error, in every interleaving.
C1_SignalErrorWins ==
    (pc = "exit" /\ killedBy = "cleanup" /\ findings = <<>>)
        => cmdErr = "SignalError"

\* C2: whichever path ends a run, the sandbox-owned temporary resources
\* that were created are removed exactly once -- never left behind and never
\* removed twice.  For the run command: once runner.Run has returned; for
\* the coverage command: once runFuzzTest has returned.
CovRanFuzzTest == command = "coverage" /\ cov.pc \in {"indexRawProfile", "exit"}
                     /\ cov.buildResult # NoBuildResult

C3_TasksJoin ==
    /\ [](runnerPc = "done" => signalHandlerCtx)
    /\ [](listener = "returnedNil" => signalHandlerCtx /\ runnerPc = "done")
    /\ [](listener = "returnedErr" => routinesCtx)
    /\ (runnerPc = "done" ~> ListenerDone)
    /\ (listener = "returnedErr" ~> runnerPc = "done")
    /\ ((runnerPc = "done" \/ listener = "returnedErr") ~> pc # "Wait")

W_C3 ==
    /\ pc = "exit" /\ listener = "returnedNil" /\ runnerPc = "done"
    /\ cmdErr = "UnrecognizedFailure"


\* C4: PrintFinalMetrics is called exactly once per execution of the run
\* command whose runner.Run has returned, on every termination path: clean
\* completion, failure error, signal.  (Left out are the executions in
\* which countSeeds fails, and those whose runner reports findings through
\* its error.)
C4_MetricsOnEveryPath ==
    (pc = "exit" /\ runnerPc = "done" /\ cmdErr \notin {"walkError", "FindingError"})
        => metricsPrinted = 1

\* C5: the final metrics are only printed after both errgroup tasks have
\* finished, the subprocess has terminated and its output is drained; no
\* finding is handed to the report handler after the metrics.
C5_MetricsAfterJoin ==
    /\ [](metricsPrinted > 0 =>
            /\ ListenerDone /\ runnerPc = "done"
            /\ proc # "live" /\ pipe = <<>>)
    /\ [][metricsPrinted > 0 => findings' = findings]_vars

W_C5 == metricsPrinted = 1 /\ Len(findings) = 2 /\ proc = "exited"

\* C6: at every moment, for every identity, the raw-occurrence counter
\* equals the number N of recognized lines with that identity read so far,
\* and exactly one finding with that identity has been emitted if N >= 1
\* (none if N = 0).  (The identity of a timeout the runner synthesizes
\* itself after a timer expiry has no line and is left out.)
LinesRead == SubSeq(stream, 1, Len(stream) - Len(pipe))

Occurrences(id) ==
    Cardinality({i \in 1..Len(LinesRead) :
                    /\ LinesRead[i].banner # "none"
                    /\ LinesRead[i].banner = id[1]
                    /\ LinesRead[i].sig = id[2]})

Emitted(id) == Cardinality({i \in 1..Len(findings) : findings[i].id = id})

C6_OneFindingPerIdentity ==
    \A id \in {x \in Identities : x[3] = 0} :
        (id[1] = "timeout" /\ timer = "fired") \/
            /\ rawCount[id] = Occurrences(id)
            /\ Emitted(id) = IF Occurrences(id) >= 1 THEN 1 ELSE 0

W_C6 ==
    /\ runnerPc = "done"
    /\ Len(LinesRead) = 2 /\ LinesRead[1] # LinesRead[2]
    /\ rawCount[<<"crash", 1, 0>>] = 2
    /\ Len(findings) = 1

\* C7: findings reach the report handler in the order in which their lines
\* were written: a finding emitted before another one has its first
\* occurrence earlier in the stream; in particular a crash banner followed
\* by a timeout banner gives the crash finding before the timeout finding.
FirstOccurrence(id) ==
    LET idx == {i \in 1..Len(stream) :
                   /\ stream[i].banner # "none"
                   /\ stream[i].banner = id[1]
                   /\ stream[i].sig = id[2]}
    IN  IF idx = {} THEN Len(stream) + 1
        ELSE CHOOSE i \in idx : \A j \in idx : i <= j

C7_FindingsInStreamOrder ==
    \A i, j \in 1..Len(findings) :
        i < j => FirstOccurrence(findings[i].id) < FirstOccurrence(findings[j].id)
                 \/ FirstOccurrence(findings[j].id) = Len(stream) + 1

W_C7 ==
    /\ Len(stream) = 2
    /\ stream[1].banner = "crash" /\ stream[2].banner = "timeout"
    /\ Len(findings) = 2
    /\ findings[1].kind = "crash" /\ findings[2].kind = "timeout"

\* C8: with a non-zero timeout a started run terminates, and a run ended by
\* the timer carries a timeout finding; with a timeout of zero no timer is
\* armed, so the subprocess is only ever terminated by cleanup or
\* cancellation.
C8_TimeoutEndsRun ==
    /\ []((runnerPc \in {"returned", "done"} /\ timer = "fired")
            => HasTimeoutFinding(findings))
    /\ []((opts.timeout = 0 /\ proc = "killed")
            => killedBy \in {"cleanup", "cancel"})
    /\ ((runnerPc = "running" /\ opts.timeout > 0) ~> runnerPc = "done")

W_C8 ==
    /\ runnerPc = "done" /\ opts.timeout > 0
    /\ stream = <<>> /\ killedBy = "timeout"
    /\ findings = <<[kind |-> "timeout", id |-> Identity(SyntheticTimeout)]>>

\* C9: in the coverage command with the sandbox requested, if the
\* executable or a corpus directory given by the user does not exist or
\* cannot be resolved, runFuzzTest fails, no sandboxed command is built and
\* no subprocess is spawned; and every corpus directory ever handed to the
\* sandbox builder as a binding exists and is free of symlinks.
CovBindingMissing ==
    \/ ~Exists(cov.buildResult.Executable, fs)
    \/ \E i \in 1..Len(cov.opts.SeedCorpusDirs) : ~Exists(cov.opts.SeedCorpusDirs[i], fs)

C9_MissingBindingFails ==
    /\ (CovRanFuzzTest /\ cov.opts.UseSandbox /\ CovBindingMissing) =>
          /\ cov.run.err # "nil"
          /\ ~cov.run.mjBuilt
          /\ cov.run.cmdArgs = <<>>
          /\ cov.run.spawned = 0
    /\ cov.pc # "idle" =>
          \A i \in 2..Len(cov.run.bindings) :
              /\ cov.run.bindings[i].Source \in fs
              /\ cov.run.bindings[i].Source # CorpusLink

W_C9 ==
    /\ CovRanFuzzTest /\ cov.opts.UseSandbox
    /\ Exists(Executable, fs)
    /\ Len(cov.opts.SeedCorpusDirs) = 2
    /\ Exists(cov.opts.SeedCorpusDirs[1], fs) /\ ~Exists(cov.opts.SeedCorpusDirs[2], fs)
    /\ cov.run.err = "evalSymlinksError"
    /\ cov.run.spawned = 0

\* C10: if a seed directory given on the command line, or the dictionary
\* when one is given, cannot be statted, the run command fails in its
\* validation with the silent error; validation ran once and neither the
\* build command nor the fuzz target was started.
Unstattable == \E path \in Named(opts) : path \notin fs

C10_ValidationFailsSilently ==
    (command = "run" /\ pc # "PreRunE" /\ Unstattable) =>
        /\ pc = "exit"
        /\ cmdErr = "ErrSilent"
        /\ numValidate = 1
        /\ numBuild = 0
        /\ numSpawn = 0

W_C10 ==
    /\ command = "run" /\ pc = "exit"
    /\ opts.dictionary = DictPath /\ DictPath \notin fs
    /\ Len(opts.seedsDirs) = 2
    /\ \A i \in 1..Len(opts.seedsDirs) : opts.seedsDirs[i] \in fs
    /\ cmdErr = "ErrSilent"

\* C11 (as stated): no step of the signal listener goroutine changes the
\* subprocess, the runner's resources, the parser's state or the runner's
\* position and result; only the runner goroutine writes them.
C11_ListenerOnlyReads ==
    [][(listener \in {"select", "received", "cleaned"} /\ listener' # listener)
        => UNCHANGED <<procVars, cleanVars, parserVars, runnerPc, runnerRet>>]_vars

\* C11 (amended): the signal listener goroutine writes subprocess and runner
\* state in one step only, the runner.Cleanup() call that follows the receipt
\* of a signal; that step can do no more than terminate a live subprocess and
\* remove the temporary resources.  Waiting, receiving and returning leave
\* all of it unchanged.
C11_ListenerWritesOnlyInCleanup ==
    [][(listener \in {"select", "received", "cleaned"} /\ listener' # listener)
        => ( /\ UNCHANGED <<exitCode, pipe, stream, timer, numSpawn, acquired,
                            parserVars, runnerPc, runnerRet>>
             /\ listener # "received"
                  => UNCHANGED <<proc, killedBy, resources, cleanupCalls, removals>>
             /\ listener = "received"
                  => /\ cleanupCalls' = cleanupCalls + 1
                     /\ proc' # proc
                          => proc = "live" /\ proc' = "killed" /\ killedBy' = "cleanup"
                     /\ resources' # resources
                          => resources /\ removals' = removals + 1 )]_vars

W_C11 ==
    /\ listener = "cleaned"
    /\ proc = "killed" /\ killedBy = "cleanup"
    /\ runnerPc = "running"
    /\ removals = 1

\* C12: the listener calls Cleanup at most once however many signals are
\* delivered (at most one call before the runner's finalizer has run, at most
\* two in all); once it has received a signal it receives no other one; a
\* signal delivered from then on changes nothing but the channel's buffer;
\* and the errgroup's error, once set, never changes.
C12_SecondSignalAbsorbed ==
    /\ [](cleanupCalls <= 2)
    /\ [](runnerPc \in {"idle", "start", "running"} => cleanupCalls <= 1)
    /\ [][(listener \in {"received", "cleaned", "returnedErr"})
            => ( /\ sigs' >= sigs
                 /\ sigs' # sigs
                      => UNCHANGED <<mainVars, groupVars, procVars, parserVars,
                                     cleanVars, listener, runnerPc, runnerRet>> )]_vars
    /\ [][(routinesErr # "nil") => (routinesErr' = routinesErr)]_vars

W_C12 ==
    /\ pc = "exit" /\ cmdErr = "SignalError"
    /\ listener = "returnedErr"
    /\ sigs = 1
    /\ cleanupCalls = 2

\* C13: a Cleanup call that follows another one on the same run terminates
\* nothing, and removes nothing once the resources have been removed; the
\* temporary resources are removed at most once whichever of the listener and
\* the runner's finalizer calls first.  A second InstallationBundler.Cleanup
\* leaves the target directory and the lock file as the first one left them
\* and reports no error.
C13_CleanupIdempotent ==
    /\ [](removals <= 1)
    /\ [][(cleanupCalls' > cleanupCalls /\ cleanupCalls >= 1)
            => ( /\ UNCHANGED <<proc, killedBy>>
                 /\ removals >= 1 => UNCHANGED <<resources, removals>> )]_vars
    /\ [][(command = "bundler" /\ bun.pc = "ready" /\ bun.cleanups >= 1)
            => ( /\ bun'.targetDir = bun.targetDir
                 /\ bun'.lockFile = bun.lockFile
                 /\ bun'.removed = bun.removed
                 /\ bun'.err = "nil" )]_vars

W_C13 ==
    /\ cleanupCalls = 2 /\ removals = 1
    /\ killedBy = "cleanup"
    /\ listener = "returnedErr" /\ runnerPc = "done"

\* C14: a fuzz target that exits with status 0 and whose output held no
\* recognized line yields no finding and a nil error (from runner.Run unless
\* the run was cancelled, from routines.Wait() when no signal was handled,
\* and from the coverage command's runFuzzTest); one that exits with a
\* non-zero status and yields no finding makes runner.Run, the run command
\* and the coverage command return a non-nil error.
C14_ExitStatusDecidesError ==
    /\ (command = "run" /\ runnerPc \in {"returned", "done"} /\ proc = "exited")
         => /\ (\A i \in 1..Len(stream) : Recognize(stream[i]) = "none")
                 => findings = <<>>
            /\ (findings = <<>> /\ exitCode = 0)
                 => /\ runnerRet \in {"nil", "Cancelled"}
                    /\ listener = "returnedNil" => runnerRet = "nil"
                    /\ (listener = "returnedNil" /\ runnerPc = "done")
                         => routinesErr = "nil"
            /\ (findings = <<>> /\ exitCode # 0)
                 => /\ runnerRet # "nil"
                    /\ runnerPc = "done" => routinesErr # "nil"
                    /\ pc = "exit" => cmdErr # "nil"
    /\ (command = "coverage" /\ cov.pc \in {"indexRawProfile", "exit"}
                             /\ cov.run.spawned = 1)
         => /\ cov.run.exitOk <=> cov.run.err = "nil"
            /\ ~cov.run.exitOk => cov.pc = "exit" /\ cov.err # "nil"

W_C14 ==
    /\ command = "run" /\ pc = "exit"
    /\ proc = "exited" /\ exitCode = 1 /\ findings = <<>>
    /\ Len(stream) = MaxLines
    /\ cmdErr = "UnrecognizedFailure"

\* C15 (as stated): off Linux, a run or coverage run with the sandbox
\* requested never reaches the sandbox builder and never spawns the fuzz
\* target.
C15_UnsupportedPlatformRejected ==
    /\ (command = "run" /\ goos # "linux" /\ opts.useSandbox)
         => numSpawn = 0 /\ ~acquired
    /\ (command = "coverage" /\ goos # "linux" /\ cov.opts.UseSandbox)
         => ~cov.run.mjRequested /\ cov.run.spawned = 0

\* The seeds beneath a listed directory, counted on the flat set of entries
Beneath(dir, tree) == {e \in tree : e.path[1] = dir}

WalkFails(seedDirs, tree) ==
    \E i \in 1..Len(seedDirs) :
        \/ Beneath(seedDirs[i], tree) = {}
        \/ \E e \in Beneath(seedDirs[i], tree) : e.err

RECURSIVE SeedsBeneath(_, _, _)
SeedsBeneath(i, seedDirs, tree) ==
    IF i > Len(seedDirs) THEN 0
    ELSE Cardinality({e \in Beneath(seedDirs[i], tree) : ~e.isDir /\ e.size > 0})
         + SeedsBeneath(i + 1, seedDirs, tree)

\* C16: countSeeds returns the sum, over the listed directories (a directory
\* listed twice counts twice), of the entries beneath it that are no
\* directories and have a size other than zero; when a listed directory is
\* missing or holds an unreadable entry it returns 0 and an error.
C16_CountSeeds ==
    (command = "countSeeds" /\ seeds.pc = "returned")
        => IF WalkFails(seeds.seedDirs, seeds.tree)
           THEN seeds.numSeeds = 0 /\ seeds.err # "nil"
           ELSE /\ seeds.err = "nil"
                /\ seeds.numSeeds = SeedsBeneath(1, seeds.seedDirs, seeds.tree)

W_C16 ==
    /\ command = "countSeeds" /\ seeds.pc = "returned"
    /\ seeds.seedDirs = <<"seedsA", "seedsB">>
    /\ seeds.tree = {Dir(<<"seedsA">>, FALSE),
                     File(<<"seedsA", "f1">>, 1), File(<<"seedsA", "f2">>, 2),
                     File(<<"seedsA", "f3">>, 2), File(<<"seedsA", "empty">>, 0),
                     Dir(<<"seedsB">>, FALSE),
                     File(<<"seedsB", "h1">>, 1), File(<<"seedsB", "h2">>, 3)}
    /\ seeds.numSeeds = 5 /\ seeds.err = "nil"

\* C17 (as stated): a run whose fuzz target was spawned has an existing
\* primary seeds directory, and no run is turned down because its first
\* --seeds-dir directory (every other named path existing) does not exist.
C17_PrimaryCorpusCreated ==
    command = "run"
        => /\ numSpawn > 0 => runnerOpts.SeedsDir \in fs
           /\ ~ /\ pc = "exit" /\ cmdErr = "ErrSilent"
                /\ Len(opts.seedsDirs) > 0
                /\ opts.seedsDirs[1] \notin fs
                /\ Named(opts) \ {opts.seedsDirs[1]} \subseteq fs

\* C17 (amended): without --seeds-dir the default corpus directory is created
\* before the goroutines are started and is the runner's primary seeds
\* directory; with --seeds-dir the first directory given is the primary one,
\* and when it does not exist the command ends in validation with the silent
\* error: nothing is created, built or spawned.
C17_DefaultCorpusCreated ==
    command = "run"
        => /\ listener # "idle"
                => /\ Len(opts.seedsDirs) >= 1
                   /\ runnerOpts.SeedsDir = opts.seedsDirs[1]
                   /\ runnerOpts.SeedsDir \in fs
           /\ (pc # "PreRunE" /\ Len(opts.seedsDirs) > 0 /\ opts.seedsDirs[1] \notin fs)
                => /\ pc = "exit" /\ cmdErr = "ErrSilent"
                   /\ numBuild = 0 /\ numSpawn = 0
                   /\ listener = "idle"

W_C17 ==
    /\ command = "run"
    /\ numSpawn = 1
    /\ runnerOpts.SeedsDir = DefaultCorpusDir
    /\ DefaultCorpusDir \in fs

\* C18: the argument vector built by the coverage command's runFuzzTest is
\* the executable, then every corpus directory, then -- only when arguments
\* for the fuzz test are given -- the separator "--" followed by those
\* arguments; nothing but the executable and the corpus directories precedes
\* the separator.  Without the sandbox this vector is the command's.
C18_ArgvOrder ==
    (command = "coverage" /\ cov.run.args # <<>>)
        => LET a == cov.run.args
               n == Len(cov.run.corpusDirs)
               t == cov.opts.FuzzTestArgs
           IN  /\ a[1] = cov.buildResult.Executable
               /\ Len(a) >= n + 1
               /\ SubSeq(a, 2, n + 1) = cov.run.corpusDirs
               /\ IF t = <<>>
                  THEN Len(a) = n + 1
                  ELSE /\ Len(a) = n + 2 + Len(t)
                       /\ a[n + 2] = "--"
                       /\ SubSeq(a, n + 3, Len(a)) = t
               /\ \A i \in 1..Len(a), j \in 1..Len(t) : a[i] = t[j] => i > n + 2
               /\ (cov.run.spawned = 1 /\ ~cov.opts.UseSandbox) => cov.run.cmdArgs = a

W_C18 ==
    /\ command = "coverage" /\ cov.run.spawned = 1
    /\ Len(cov.run.corpusDirs) >= 2
    /\ cov.opts.FuzzTestArgs # <<>>
    /\ cov.run.cmdArgs[Len(cov.run.corpusDirs) + 2] = "--"

\* C19: whenever the coverage command calls the sandbox builder, the sources
\* of the bindings it hands over include the executable and every corpus
\* directory, that is every path standing before the separator in the
\* argument vector handed over with them.
C19_BindingsCoverArgv ==
    (command = "coverage" /\ cov.run.mjRequested)
        => LET sources == {cov.run.bindings[i].Source : i \in 1..Len(cov.run.bindings)}
               n == Len(cov.run.corpusDirs)
           IN  /\ cov.buildResult.Executable \in sources
               /\ \A i \in 1..n : cov.run.corpusDirs[i] \in sources
               /\ \A i \in 1..(n + 1) : cov.run.args[i] \in sources

W_C19 ==
    /\ command = "coverage" /\ cov.run.mjBuilt
    /\ cov.run.spawned = 1
    /\ Len(cov.run.corpusDirs) >= 2
    /\ Len(cov.run.bindings) = Len(cov.run.corpusDirs) + 1

\* C20: without the sandbox the command's environment holds every variable
\* of the binary environment with its value there (LLVM_PROFILE_FILE) and
\* every other variable of the caller's environment with its value, and
\* nothing else, and no sandbox builder is called; with the sandbox the
\* command's environment is the caller's and the binary environment is the
\* one handed to the sandbox builder.
C20_EnvironmentMerge ==
    (command = "coverage" /\ cov.run.spawned = 1)
        => IF cov.opts.UseSandbox
           THEN /\ cov.run.cmdEnv = cov.environ
                /\ cov.run.mjEnv = [k \in {"LLVM_PROFILE_FILE"} |-> RawProfilePattern]
           ELSE /\ DOMAIN cov.run.cmdEnv = DOMAIN cov.environ \cup {"LLVM_PROFILE_FILE"}
                /\ cov.run.cmdEnv["LLVM_PROFILE_FILE"] = RawProfilePattern
                /\ \A k \in DOMAIN cov.environ \ {"LLVM_PROFILE_FILE"} :
                        cov.run.cmdEnv[k] = cov.environ[k]
                /\ ~cov.run.mjRequested /\ cov.run.mjEnv = EmptyEnv

W_C20 ==
    /\ command = "coverage" /\ cov.run.spawned = 1
    /\ ~cov.opts.UseSandbox
    /\ DOMAIN cov.environ = {"PATH", "LLVM_PROFILE_FILE"}
    /\ cov.environ["LLVM_PROFILE_FILE"] # RawProfilePattern
    /\ cov.run.cmdEnv["PATH"] = cov.environ["PATH"]

\* C21: the corpus directories of a coverage run are the user-specified ones
\* (symlinks resolved), then the build's seed corpus if and only if it exists,
\* then the generated corpus if and only if it exists; a seed corpus that
\* does not exist stands neither in the argument vector nor in the bindings,
\* and a failure to resolve the directories is always due to a user-specified
\* directory, never to the absent seed corpus.
C21_SeedCorpusIffExists ==
    command = "coverage"
        => LET user == cov.opts.SeedCorpusDirs
               n == Len(user)
               dirs == cov.run.corpusDirs
               seed == IF Exists(SeedCorpus, fs) THEN <<SeedCorpus>> ELSE <<>>
               gen == IF Exists(GeneratedCorpusDir, fs)
                      THEN <<GeneratedCorpusDir>> ELSE <<>>
           IN  /\ cov.run.args # <<>>
                    => /\ Len(dirs) = n + Len(seed) + Len(gen)
                       /\ \A i \in 1..n : dirs[i] = EvalSymlinks(user[i], fs)
                       /\ SubSeq(dirs, n + 1, Len(dirs)) = seed \o gen
               /\ ~Exists(SeedCorpus, fs)
                    => /\ \A i \in 1..Len(cov.run.args) : cov.run.args[i] # SeedCorpus
                       /\ \A i \in 1..Len(cov.run.bindings) :
                              cov.run.bindings[i].Source # SeedCorpus
               /\ cov.run.err = "evalSymlinksError"
                    => \E i \in 1..n : ~Exists(user[i], fs)

W_C21 ==
    /\ command = "coverage" /\ cov.run.spawned = 1
    /\ cov.run.err = "nil"
    /\ ~Exists(SeedCorpus, fs)
    /\ Exists(GeneratedCorpusDir, fs)
    /\ cov.opts.UseSandbox
    /\ Len(cov.run.corpusDirs) = Len(cov.opts.SeedCorpusDirs) + 1

\* C22 (as stated): from the start of the first build operation of
\* BuildCIFuzzAndDeps to the end of the last one the instance holds the file
\* lock, so that no other instance of the installer holds it in between.
C22_LockHeldThroughout ==
    (command = "bundler" /\ bun.pc \in {"opLock", "opRun", "opUnlock"})
        => bun.flock = "self"

\* C27 (as stated): isLocked is set exactly when the instance holds the file
\* lock, and no Unlock is invoked while the instance does not hold it.
C27_UnlockOnlyWhenHeld ==
    command = "bundler"
        => /\ bun.isLocked <=> bun.flock = "self"
           /\ bun.unheldUnlocks = 0

\* C28 (as stated): once NewInstallationBundler has returned, a nil error
\* comes with a bundler, an empty Version has given a non-nil error, and
\* main never calls BuildCIFuzzAndDeps on a nil bundler.
C28_NilErrorMeansBundler ==
    (command = "bundler" /\ bun.pc # "new")
        => /\ bun.err = "nil" => bun.obj
           /\ bun.version = "" => bun.err # "nil"
           /\ bun.pc # "panic"

\* The findings a run reports for the lines read so far, worked out from
\* the lines alone: one per recognized signature, in order of first
\* occurrence, and a timeout finding for a timer expiry the output did not
\* report
RECURSIVE ReportedFrom(_, _)
ReportedFrom(lines, acc) ==
    IF lines = <<>> THEN acc
    ELSE LET l == Head(lines)
             f == [kind |-> l.banner, id |-> <<l.banner, l.sig, 0>>]
         IN  ReportedFrom(Tail(lines),
                          IF l.banner = "none" \/ \E i \in 1..Len(acc) : acc[i] = f
                          THEN acc ELSE Append(acc, f))

Reported ==
    LET fromLines == ReportedFrom(LinesRead, <<>>) IN
    IF /\ runnerPc \in {"returned", "done"}
       /\ timer = "fired"
       /\ \A i \in 1..Len(fromLines) : fromLines[i].kind # "timeout"
    THEN Append(fromLines, [kind |-> "timeout", id |-> <<"timeout", 0, 0>>])
    ELSE fromLines

C25_CoverageReleasesResources ==
    command = "coverage"
        => /\ cov.pc \in {"buildFuzzTest", "runFuzzTest", "indexRawProfile"}
                => cov.tmpCreated /\ cov.tmpDir /\ cov.tmpCleanups = 0
           /\ cov.pc = "exit"
                => /\ cov.tmpCleanups = IF cov.tmpCreated THEN 1 ELSE 0
                   /\ cov.tmpDir <=> (cov.tmpCreated /\ cov.skipCleanup)
                   /\ cov.tmpCreated <=> cov.err \notin {"mkdirError"}
                                          /\ (cov.err = "ErrSilent"
                                                => cov.buildResult # NoBuildResult)
           /\ cov.pc \in {"indexRawProfile", "exit"}
                => /\ cov.run.mjBuilt => cov.run.mjCleanups = 1
                   /\ ~cov.run.mjBuilt => cov.run.mjCleanups = 0
                   /\ (cov.run.mjBuilt /\ cov.run.spawned = 1 /\ ~cov.run.exitOk)
                        => cov.run.mjCleanups = 1 /\ cov.tmpCleanups = 1

W_C25 ==
    /\ command = "coverage" /\ cov.pc = "exit"
    /\ cov.err = "ErrSilent"
    /\ cov.run.mjBuilt /\ cov.run.spawned = 1 /\ ~cov.run.exitOk
    /\ cov.run.mjCleanups = 1
    /\ cov.tmpCleanups = 1 /\ ~cov.tmpDir

\* C26 (as stated): when the fuzz test of a coverage run was started and
\* failed, the command's error is the could-be-sandbox error if the sandbox
\* is enabled, and is not one if it is disabled.
C26_SandboxFailureWrapped ==
    (command = "coverage" /\ cov.pc = "exit"
                         /\ cov.run.spawned = 1 /\ ~cov.run.exitOk)
        => (cov.err = "CouldBeSandboxError" <=> cov.opts.UseSandbox)


\* C29: stubs.Create never modifies an existing file.  In every call of
\* Create, each path that was there before the call (a file of the user or
\* a path os.Stat cannot examine) is the same after it; if the target path
\* holds a file, the call returns os.ErrExist; and the working directory is
\* changed only if the target path did not exist and the test type has a
\* template.
C29_CreateNeverModifiesExisting ==
    [][((command = "stubs" /\ stubs.op = "Create" /\ stubs.pc = "call"
         /\ stubs'.pc = "returned")
        => ((\A p \in StubPaths :
                stubs.files[p] # "absent" => stubs'.files[p] = stubs.files[p])
            /\ ((stubs.path \in StubPaths /\ stubs.files[stubs.path] = "user")
                  => stubs'.err = "ErrExist")
            /\ (stubs'.files # stubs.files
                  => (/\ stubs.path \in StubPaths
                      /\ stubs.files[stubs.path] = "absent"
                      /\ stubs.testType = CPP))))]_vars

\* Create has been called for a path that holds a file of the user, beside
\* another file, and has returned os.ErrExist
W_C29 ==
    /\ command = "stubs" /\ stubs.op = "Create" /\ stubs.pc = "returned"
    /\ stubs.path = "my_fuzz_test_1.cpp" /\ stubs.testType = CPP
    /\ stubs.files["my_fuzz_test_1.cpp"] = "user"
    /\ stubs.files["other.cpp"] = "user"
    /\ stubs.err = "ErrExist"

\* The numbered fuzz test files that exist, and the number of the first
\* name that is not the name of an existing file
NumberedName(n) == "my_fuzz_test_" \o ToString(n) \o ".cpp"
StateOfNumbered(n) ==
    IF NumberedName(n) \in DOMAIN stubs.files THEN stubs.files[NumberedName(n)]
    ELSE "absent"
ExistingNumbered == {n \in 1..MaxStubFiles : StateOfNumbered(n) = "user"}
FirstNotExisting ==
    CHOOSE n \in 1..(MaxStubFiles + 1) :
        /\ StateOfNumbered(n) # "user"
        /\ \A i \in 1..(n - 1) : StateOfNumbered(i) = "user"

\* C30: FuzzTestFilename terminates and returns the first free numbered
\* name.  For the test type CPP the loop never makes more turns than there
\* are existing numbered files plus one and can always make its next turn;
\* it returns, without error, my_fuzz_test_<n>.cpp for the smallest n >= 1
\* whose file does not exist, so the name is not the name of an existing
\* file (if os.Stat fails on the way it returns that error and no name).
\* For another test type it returns an error and no name.
C30_FirstFreeFilename ==
    (command = "stubs" /\ stubs.op = "FuzzTestFilename") =>
        /\ stubs.pc = "loop" =>
              /\ stubs.counter <= Cardinality(ExistingNumbered) + 1
              /\ ENABLED FuzzTestFilenameLoop
        /\ stubs.pc = "returned" =>
              IF stubs.testType # CPP
              THEN stubs.err # "nil" /\ stubs.name = ""
              ELSE IF StateOfNumbered(FirstNotExisting) = "absent"
              THEN /\ stubs.err = "nil"
                   /\ stubs.name = NumberedName(FirstNotExisting)
                   /\ \A p \in StubPaths : stubs.files[p] = "user" => stubs.name # p
              ELSE stubs.err # "nil" /\ stubs.name = ""

\* Every numbered file of the bound exists and FuzzTestFilename has returned
\* the name after the last of them
W_C30 ==
    /\ command = "stubs" /\ stubs.op = "FuzzTestFilename" /\ stubs.pc = "returned"
    /\ stubs.testType = CPP
    /\ Cardinality(ExistingNumbered) = MaxStubFiles
    /\ stubs.name = NumberedName(MaxStubFiles + 1)
    /\ stubs.err = "nil"

====
